---- MODULE Spec2Model ----
(***************************************************************************)
(* WiFi indoor positioning service (app.py, prediction_api.py):            *)
(* identifier normalisation, feature-vector building and the /predict,     *)
(* /latest and /ws handlers.                                               *)
(*                                                                         *)
(* Python strings are modelled as sequences of one-character strings, so   *)
(* that strip / lower / replace / endswith are computed character by       *)
(* character.                                                              *)
(***************************************************************************)
EXTENDS Integers, Sequences, FiniteSets, TLC

\* ------------------------------------------------------------------ bounds
MaxLen == 3          \* longest enumerated raw identifier string
MaxPad == 1          \* most whitespace characters put on either side of a spelling
MaxSchema == 2       \* most raw identifiers in feature_list_used.csv
MaxObs == 2          \* most observations in an enumerated scan list
MaxReqs == 2         \* POST /predict requests served
MaxWs == 2           \* websocket clients that connect to /ws
MaxReads == 1        \* GET /latest requests served
MaxRows == 3         \* rows (readings) of the long training CSV
MaxLabels == 3       \* rows of the Location_Label column

\* --------------------------------------------------------------- constants
MISSING_RSSI == -110

VARIABLES
    norm_pc,         \* normaliser harness: "input" | "once" | "twice"
    norm_x,          \* the raw string handed to normalize_bssid
    norm_y,          \* normalize_bssid(norm_x)
    norm_z,          \* normalize_bssid(norm_y)
    spell_pc,        \* spelling harness: "input" | "done"
    core,            \* an identifier in plain spelling (lowercase, colons)
    variant,         \* how the second spelling differs from the plain one
    spelling,        \* the second spelling of core
    canon_a,         \* normalize_bssid(core)
    canon_b,         \* normalize_bssid(spelling)
    feature_list_raw,\* the identifiers read from feature_list_used.csv
    feature_list,    \* the schema: feature_list_raw normalised, in file order
    build_pc,        \* builder harness: "load" | "input" | "done" | "between" | "again"
    build_items,     \* the scan_items handed to build_feature_df
    build_result,    \* what build_feature_df returned (or that it raised)
    build_between,   \* what a call with other scan_items returned in between
    build_second,    \* what a second call with build_items returned
    server_pc,       \* "loading" | "serving" | "failed" ("idle" in the harnesses)
    files_exist,     \* the three artifact files are present
    rf_n_features,   \* rf_model.n_features_in_
    latest_prediction, \* the module-level latest_prediction dict
    active_connections, \* manager.active_connections
    clock,           \* datetime.now(), as a counter
    req,             \* per /predict request: position and local variables
    response,        \* per /predict request: the HTTP response
    ws,              \* per websocket: position of its handler, client alive
    inbox,           \* per websocket: the messages its client received
    latest_resp,     \* the last response of GET /latest
    reads,           \* GET /latest requests served so far
    train_pc,        \* training pipeline: "input" | "wide" | "trained" | "served"
    script,          \* the conversion script that was run on the long CSV
    bssids,          \* the BSSID column of wifi_training_data.csv, as read
    bssids_norm,     \* the BSSID column after the script's normalisation
    feature_cols,    \* the feature columns of wifi_training_wide_per_scan.csv
    label_pc,        \* label harness: "input" | "encoded" | "decoded"
    y_labels,        \* y: the Location_Label column handed to encode_labels
    encoder_classes, \* encoder.classes_ after the fit
    y_encoded,       \* encoder.fit_transform(y)
    y_decoded,       \* encoder.inverse_transform(y_encoded)
    top_pc,          \* ranking harness: "input" | "done"
    top_probs,       \* probs: one predict_proba row
    top_record       \* the prediction record made from top_probs

vars == <<norm_pc, norm_x, norm_y, norm_z,
          spell_pc, core, variant, spelling, canon_a, canon_b,
          feature_list_raw, feature_list,
          build_pc, build_items, build_result, build_between, build_second,
          server_pc, files_exist, rf_n_features, latest_prediction,
          active_connections, clock, req, response, ws, inbox, latest_resp,
          reads,
          train_pc, script, bssids, bssids_norm, feature_cols,
          label_pc, y_labels, encoder_classes, y_encoded, y_decoded,
          top_pc, top_probs, top_record>>

topVars == <<top_pc, top_probs, top_record>>

labelVars == <<label_pc, y_labels, encoder_classes, y_encoded, y_decoded>>

trainVars == <<train_pc, script, bssids, bssids_norm, feature_cols>>
trainVars_data == <<script, bssids, bssids_norm, feature_cols>>
normVars  == <<norm_pc, norm_x, norm_y, norm_z>>
spellVars == <<spell_pc, core, variant, spelling, canon_a, canon_b>>
schemaVars == <<feature_list_raw, feature_list>>
buildVars == <<build_pc, build_items, build_result, build_between, build_second>>
serverVars == <<server_pc, files_exist, rf_n_features, latest_prediction,
                active_connections, clock, req, response, ws, inbox, latest_resp,
                reads>>

\* ------------------------------------------------------------- characters
\* "U+1D400" stands for the one character MATHEMATICAL BOLD CAPITAL A: an
\* uppercase letter (category Lu, str.isupper() is True) for which Unicode
\* has no lowercase form, so that str.lower() leaves it as it is.
Whitespace  == {" "}
Letters     == {"a", "b", "c"}
CasedUppers == {"A", "B", "C"}
Uppers      == CasedUppers \cup {"U+1D400"}
Chars       == {"a", "A", "b", "-", ":", " ", "U+1D400"}

\* str.lower() on one character
LowerChar(c) ==
    CASE c = "A" -> "a"
      [] c = "B" -> "b"
      [] c = "C" -> "c"
      [] OTHER   -> c

UpperChar(c) ==
    CASE c = "a" -> "A"
      [] c = "b" -> "B"
      [] c = "c" -> "C"
      [] OTHER   -> c

\* max() of a non-empty set of numbers
MaxOf(S) == CHOOSE m \in S : \A n \in S : n <= m

\* all sequences over S of length at most n
SeqsUpTo(S, n) == UNION {[1..k -> S] : k \in 0..n}

\* ----------------------------------------------------- string operations
\* str.lstrip(): drop leading whitespace
RECURSIVE LStrip(_)
LStrip(s) ==
    IF s = <<>> THEN <<>>
    ELSE IF Head(s) \in Whitespace THEN LStrip(Tail(s))
    ELSE s

\* str.rstrip(): drop trailing whitespace
RECURSIVE RStrip(_)
RStrip(s) ==
    IF s = <<>> THEN <<>>
    ELSE IF s[Len(s)] \in Whitespace THEN RStrip(SubSeq(s, 1, Len(s) - 1))
    ELSE s

\* str.strip()
Strip(s) == RStrip(LStrip(s))

\* str.lower()
Lower(s) == [i \in 1..Len(s) |-> LowerChar(s[i])]

\* str.replace(old, new) for one-character old and new
Replace(s, old, new) == [i \in 1..Len(s) |-> IF s[i] = old THEN new ELSE s[i]]

\* str.endswith(c) for a one-character suffix
EndsWith(s, c) == Len(s) > 0 /\ s[Len(s)] = c

\* normalize_bssid without the lower() call
normalize_bssid_nolower(bssid) ==
    LET normalized == Replace(Strip(bssid), "-", ":")
    IN  IF ~EndsWith(normalized, ":") THEN Append(normalized, ":") ELSE normalized

\* normalize_bssid appending the colon without the endswith test
normalize_bssid_alwaysappend(bssid) ==
    Append(Replace(Lower(Strip(bssid)), "-", ":"), ":")

\* normalize_bssid without the replace() call
normalize_bssid_noreplace(bssid) ==
    LET normalized == Lower(Strip(bssid))
    IN  IF ~EndsWith(normalized, ":") THEN Append(normalized, ":") ELSE normalized

\* app.py normalize_bssid
normalize_bssid(bssid) ==
    LET normalized == Replace(Lower(Strip(bssid)), "-", ":")
    IN  IF ~EndsWith(normalized, ":") THEN Append(normalized, ":") ELSE normalized

\* ------------------------------------------------- normaliser inputs
\* the spellings quoted in the specification's examples
Ex_AA_BB_CC  == <<"A","A","-","B","B","-","C","C">>
Ex_aa_bb_cc  == <<"a","a",":","b","b",":","c","c">>
Ex_aa_bb_cc_ == <<"a","a",":","b","b",":","c","c",":">>

RawStrings == SeqsUpTo(Chars, MaxLen) \cup {Ex_AA_BB_CC, Ex_aa_bb_cc, Ex_aa_bb_cc_}

\* identifiers in plain spelling: lowercase groups joined by colons,
\* beginning and ending with a group
PlainCores ==
    {s \in SeqsUpTo({"a", "b", ":"}, MaxLen) :
        /\ Len(s) > 0
        /\ s[1] # ":"
        /\ s[Len(s)] # ":"}
    \cup {Ex_aa_bb_cc}

\* the ways a spelling may differ from the plain one
Variants(c) ==
    [upper    : SUBSET {i \in 1..Len(c) : c[i] \in Letters},
     hyphen   : SUBSET {i \in 1..Len(c) : c[i] = ":"},
     trailing : BOOLEAN,
     lead     : 0..MaxPad,
     tail     : 0..MaxPad]

Pad(n) == [i \in 1..n |-> " "]

\* the spelling of identifier c described by variant v
Render(c, v) ==
    LET body == [i \in 1..Len(c) |->
                    IF i \in v.upper THEN UpperChar(c[i])
                    ELSE IF i \in v.hyphen THEN "-"
                    ELSE c[i]]
    IN  Pad(v.lead) \o body \o (IF v.trailing THEN <<":">> ELSE <<>>) \o Pad(v.tail)

PlainVariant == [upper |-> {}, hyphen |-> {}, trailing |-> FALSE, lead |-> 0, tail |-> 0]

\* ------------------------------------------------------------ dictionaries
\* A Python dict is a sequence of [k, v] entries in insertion order.
DictHas(d, key) == \E i \in 1..Len(d) : d[i].k = key

\* d[key] = value that moves an existing key to the end
DictSet_movetoend(d, key, value) ==
    LET others == SelectSeq(d, LAMBDA e : e.k # key)
    IN  Append(others, [k |-> key, v |-> value])

\* d[key] = value: an existing key keeps its position, a new key is appended
DictSet(d, key, value) ==
    IF DictHas(d, key)
    THEN [i \in 1..Len(d) |-> IF d[i].k = key THEN [k |-> key, v |-> value] ELSE d[i]]
    ELSE Append(d, [k |-> key, v |-> value])

\* list(d.values())
DictValues(d) == [i \in 1..Len(d) |-> d[i].v]

\* ------------------------------------------------------------ observations
\* A raw signal strength is what it.get("rssi") returns: a number, a numeric
\* string, a string that is no number, or None (also for a missing key).
RssiKinds == {"float", "numstr", "badstr", "none"}

\* float(r): the parsed number, or a ValueError / TypeError
ParseFloat(r) ==
    CASE r.t = "float"  -> [ok |-> TRUE,  v |-> r.v]
      [] r.t = "numstr" -> [ok |-> TRUE,  v |-> r.v]
      [] r.t = "badstr" -> [ok |-> FALSE, v |-> 0]
      [] r.t = "none"   -> [ok |-> FALSE, v |-> 0]

Num(n)    == [t |-> "float",  v |-> n]
NumStr(n) == [t |-> "numstr", v |-> n]
BadStr    == [t |-> "badstr", v |-> 0]
NoRssi    == [t |-> "none",   v |-> 0]

Obs(b, r) == [bssid |-> b, rssi |-> r]

\* ------------------------------------------------------ build_feature_df
\* lines 115-117 without the sentinel fill
InitData_empty(fl, data) == data

\* lines 115-117: data[bssid] = MISSING_RSSI for every bssid of feature_list
RECURSIVE InitData(_, _)
InitData(fl, data) ==
    IF fl = <<>> THEN data
    ELSE InitData(Tail(fl), DictSet(data, Head(fl), MISSING_RSSI))

\* the scan loop keeping the first strength seen for an identifier
RECURSIVE FillFromScan_firstwins(_, _)
FillFromScan_firstwins(items, st) ==
    IF items = <<>> THEN st
    ELSE
        LET it == Head(items)
            b  == normalize_bssid(it.bssid)
            r  == ParseFloat(it.rssi)
            seen == \E i \in 1..Len(st.matched_bssids) : st.matched_bssids[i] = b
        IN  IF ~r.ok THEN FillFromScan_firstwins(Tail(items), st)
            ELSE IF DictHas(st.data, b)
            THEN FillFromScan_firstwins(Tail(items),
                    [data           |-> IF seen THEN st.data ELSE DictSet(st.data, b, r.v),
                     matched_count  |-> st.matched_count + 1,
                     matched_bssids |-> Append(st.matched_bssids, b)])
            ELSE FillFromScan_firstwins(Tail(items), st)

\* the scan loop counting each matched identifier once
RECURSIVE FillFromScan_countdistinct(_, _)
FillFromScan_countdistinct(items, st) ==
    IF items = <<>> THEN st
    ELSE
        LET it == Head(items)
            b  == normalize_bssid(it.bssid)
            r  == ParseFloat(it.rssi)
            seen == \E i \in 1..Len(st.matched_bssids) : st.matched_bssids[i] = b
        IN  IF ~r.ok THEN FillFromScan_countdistinct(Tail(items), st)
            ELSE IF DictHas(st.data, b)
            THEN FillFromScan_countdistinct(Tail(items),
                    [data           |-> DictSet(st.data, b, r.v),
                     matched_count  |-> IF seen THEN st.matched_count
                                        ELSE st.matched_count + 1,
                     matched_bssids |-> Append(st.matched_bssids, b)])
            ELSE FillFromScan_countdistinct(Tail(items), st)

\* the scan loop leaving the loop (break) at an unparsable strength
RECURSIVE FillFromScan_break(_, _)
FillFromScan_break(items, st) ==
    IF items = <<>> THEN st
    ELSE
        LET it == Head(items)
            b  == normalize_bssid(it.bssid)
            r  == ParseFloat(it.rssi)
        IN  IF ~r.ok THEN st
            ELSE IF DictHas(st.data, b)
            THEN FillFromScan_break(Tail(items),
                    [data           |-> DictSet(st.data, b, r.v),
                     matched_count  |-> st.matched_count + 1,
                     matched_bssids |-> Append(st.matched_bssids, b)])
            ELSE FillFromScan_break(Tail(items), st)

\* lines 119-130: the loop over scan_items
RECURSIVE FillFromScan(_, _)
FillFromScan(items, st) ==
    IF items = <<>> THEN st
    ELSE
        LET it == Head(items)
            b  == normalize_bssid(it.bssid)
            r  == ParseFloat(it.rssi)
        IN  IF ~r.ok THEN FillFromScan(Tail(items), st)            \* except: continue
            ELSE IF DictHas(st.data, b)
            THEN FillFromScan(Tail(items),
                    [data           |-> DictSet(st.data, b, r.v),
                     matched_count  |-> st.matched_count + 1,
                     matched_bssids |-> Append(st.matched_bssids, b)])
            ELSE FillFromScan(Tail(items), st)

\* pd.DataFrame([values], columns=columns): one row; a ValueError when the
\* number of values differs from the number of columns
DataFrame(values, columns) ==
    IF Len(values) # Len(columns)
    THEN [raised |-> TRUE,  columns |-> <<>>,    row |-> <<>>]
    ELSE [raised |-> FALSE, columns |-> columns, row |-> values]

\* app.py build_feature_df, with feature_list as a parameter
build_feature_df(fl, scan_items) ==
    LET data == InitData(fl, <<>>)
        st   == FillFromScan(scan_items,
                    [data |-> data, matched_count |-> 0, matched_bssids |-> <<>>])
        df   == DataFrame(DictValues(st.data), fl)
    IN  [raised        |-> df.raised,
         columns       |-> df.columns,
         row           |-> df.row,
         matched_count |-> IF df.raised THEN 0 ELSE st.matched_count]

NoResult == [raised |-> FALSE, columns |-> <<>>, row |-> <<>>, matched_count |-> 0]

\* lines 35-36: every raw identifier of the file normalised, in file order
LoadFeatureList(raw) == [i \in 1..Len(raw) |-> normalize_bssid(raw[i])]

\* ---------------------------------------------------------- builder inputs
SchemaRawIds == {<<"a">>, <<"a", ":">>, <<"b", ":">>}
ObsBssids    == {<<"A">>, <<"a", ":">>, <<"b">>, <<"c">>}
ObsRssis     == {Num(-40), Num(-80), NumStr(-30), BadStr, NoRssi}
Observations == {Obs(b, r) : b \in ObsBssids, r \in ObsRssis}

Ex_dd_ee_ff  == <<"d","d",":","e","e",":","f","f",":">>
Ex_ff_ff_ff  == <<"f","f","-","f","f","-","f","f">>

\* the scenarios of the specification's testable properties
ExampleInputs ==
    { <<  <<Ex_aa_bb_cc_, Ex_dd_ee_ff>>, <<Obs(Ex_AA_BB_CC, Num(-40))>>  >>,
      <<  <<Ex_aa_bb_cc_>>,              <<Obs(Ex_ff_ff_ff, Num(-50))>>  >>,
      <<  <<Ex_aa_bb_cc_>>,
          <<Obs(Ex_aa_bb_cc_, Num(-30)), Obs(Ex_AA_BB_CC, Num(-80))>>    >> }

BuildInputs ==
    (SeqsUpTo(SchemaRawIds, MaxSchema) \X SeqsUpTo(Observations, MaxObs))
    \cup ExampleInputs

NoDuplicates(s) == \A i, j \in 1..Len(s) : s[i] = s[j] => i = j

\* ---------------------------------------------------------- the service
Reqs == 1..MaxReqs
WS   == 1..MaxWs

\* label_encoder.classes_
classes_ == <<"hall", "lab", "office", "yard">>

\* lines 58-65: the record before any prediction (None is "None" / 0)
NoPrediction ==
    [location |-> "None", confidence |-> 0, top3 |-> <<>>,
     matched_aps |-> 0, total_aps |-> 0, timestamp |-> 0]

\* an Optional[List[ScanItem]] field of ScanRequest
Absent      == [present |-> FALSE, items |-> <<>>]
Given(l)    == [present |-> TRUE,  items |-> l]
ScanRequest(sc, ap) == [scans |-> sc, access_points |-> ap]

\* Python truth value of an Optional list: present and not empty
Truthy(f) == f.present /\ Len(f.items) > 0

\* ScanItem(bssid, rssi): rssi has been validated as a float
ScanItem(b, n) == [bssid |-> b, rssi |-> n]

ListOne   == <<ScanItem(<<"A">>, -40)>>
ListTwo   == <<ScanItem(<<"a", ":">>, -30), ScanItem(<<"A">>, -80)>>
ListOther == <<ScanItem(<<"c">>, -50), ScanItem(<<"b">>, -70)>>

RequestBodies ==
    { ScanRequest(Absent, Absent),
      ScanRequest(Given(<<>>), Absent),
      ScanRequest(Absent, Given(<<>>)),
      ScanRequest(Given(ListTwo), Absent),
      ScanRequest(Absent, Given(ListTwo)),
      ScanRequest(Given(<<>>), Given(ListOne)),
      ScanRequest(Given(ListOther), Given(ListOne)) }

\* the files feature_list_used.csv the service is started with
ServerSchemas == { <<<<"a">>, <<"b", ":">>>>, <<<<"a">>, <<"a", ":">>>> }

\* predict_proba rows the classifier may return, in percent
ProbVectors == { <<40, 10, 40, 10>> }

\* what a call of the classifier does: it raises, or returns probabilities
ClassifierOutcomes ==
    {[raised |-> TRUE, probs |-> <<>>]} \cup
    {[raised |-> FALSE, probs |-> p] : p \in ProbVectors}

\* max(probs)
MaxProb(probs) == MaxOf({probs[i] : i \in 1..Len(probs)})

\* rf_model.predict: the index (from 0) of the first largest probability
ArgMax(probs) ==
    (CHOOSE i \in 1..Len(probs) :
        /\ probs[i] = MaxProb(probs)
        /\ \A j \in 1..(i - 1) : probs[j] < probs[i]) - 1

\* dict(zip(label_encoder.classes_, probs)).items()
ClassProbs(probs) ==
    [i \in 1..(IF Len(probs) < Len(classes_) THEN Len(probs) ELSE Len(classes_)) |->
        <<classes_[i], probs[i]>>]

\* one insertion of the stable descending sort: e goes behind every entry
\* whose probability is at least its own
RECURSIVE InsertDesc(_, _)
InsertDesc(sorted, e) ==
    IF sorted = <<>> THEN <<e>>
    ELSE IF Head(sorted)[2] >= e[2] THEN <<Head(sorted)>> \o InsertDesc(Tail(sorted), e)
    ELSE <<e>> \o sorted

\* sorted(items, key=lambda kv: kv[1], reverse=True)
RECURSIVE SortedDesc(_)
SortedDesc(items) ==
    IF items = <<>> THEN <<>>
    ELSE InsertDesc(SortedDesc(SubSeq(items, 1, Len(items) - 1)), items[Len(items)])

\* s[:n]
Take(s, n) == SubSeq(s, 1, IF Len(s) < n THEN Len(s) ELSE n)

\* line 190 without the sort
Top3_unsorted(probs) == Take(ClassProbs(probs), 3)

\* line 190
Top3(probs) == Take(SortedDesc(ClassProbs(probs)), 3)

\* conn in list
InList(l, x) == \E i \in 1..Len(l) : l[i] = x

\* list.remove(x): the first occurrence is removed
Remove(l, x) ==
    LET k == CHOOSE i \in 1..Len(l) : l[i] = x /\ \A j \in 1..(i - 1) : l[j] # x
    IN  SubSeq(l, 1, k - 1) \o SubSeq(l, k + 1, Len(l))

\* ConnectionManager.disconnect, lines 77-80
disconnect(conns, websocket) ==
    IF InList(conns, websocket) THEN Remove(conns, websocket) ELSE conns

\* lines 89-91 left out: the failed connections stay in the list
Prune_none(conns, disconnected) == conns

\* ConnectionManager.broadcast, lines 89-91: the failed connections are pruned
RECURSIVE Prune(_, _)
Prune(conns, disconnected) ==
    IF disconnected = <<>> THEN conns
    ELSE Prune(disconnect(conns, Head(disconnected)), Tail(disconnected))

\* the local variables of a request that has not run yet
NewReq ==
    [pc |-> "new", body |-> ScanRequest(Absent, Absent), scan_items |-> <<>>,
     X |-> <<>>, matched_count |-> 0, invoked |-> FALSE,
     message |-> NoPrediction, idx |-> 0, conn |-> 0, disconnected |-> <<>>]

NoResponse == [status |-> 0, body |-> NoPrediction]

NoLatestResp == [message |-> "", data |-> NoPrediction]

\* total_aps taken as the number of distinct identifiers scanned
TotalAps_distinct(scan_items) ==
    Cardinality({normalize_bssid(scan_items[i].bssid) : i \in 1..Len(scan_items)})

\* line 205: len(scan_items)
TotalAps(scan_items) == Len(scan_items)

\* lines 200-207: the new latest_prediction record
Prediction(probs, matched_count, scan_items, timestamp) ==
    [location    |-> classes_[ArgMax(probs) + 1],
     confidence  |-> MaxProb(probs),
     top3        |-> Top3(probs),
     matched_aps |-> matched_count,
     total_aps   |-> TotalAps(scan_items),
     timestamp   |-> timestamp]

\* lines 160-166 with the test for an empty request left out
Rejected_never(body) == FALSE

\* lines 160-166: neither scans nor access_points is a non-empty list
Rejected(body) == ~Truthy(body.scans) /\ ~Truthy(body.access_points)

\* lines 160-164 with the two keys tested in the other order
RawList_aliasfirst(body) ==
    IF Truthy(body.access_points) THEN body.access_points.items ELSE body.scans.items

\* lines 160-164: scans when it is a non-empty list, else access_points
RawList(body) ==
    IF Truthy(body.scans) THEN body.scans.items ELSE body.access_points.items

\* line 169: the ScanItem objects as dicts
ScanItems(raw_list) ==
    [i \in 1..Len(raw_list) |-> Obs(raw_list[i].bssid, Num(raw_list[i].rssi))]

\* ============================================ normaliser specification
InitNormIdle ==
    /\ norm_pc = "idle"
    /\ norm_x = <<>>
    /\ norm_y = <<>>
    /\ norm_z = <<>>

InitSpellIdle ==
    /\ spell_pc = "idle"
    /\ core = <<>>
    /\ variant = PlainVariant
    /\ spelling = <<>>
    /\ canon_a = <<>>
    /\ canon_b = <<>>

InitServerIdle ==
    /\ server_pc = "idle"
    /\ files_exist = FALSE
    /\ rf_n_features = 0
    /\ latest_prediction = NoPrediction
    /\ active_connections = <<>>
    /\ clock = 0
    /\ req = [r \in Reqs |-> NewReq]
    /\ response = [r \in Reqs |-> NoResponse]
    /\ ws = [w \in WS |-> [pc |-> "new", alive |-> FALSE, message |-> NoPrediction]]
    /\ inbox = [w \in WS |-> <<>>]
    /\ latest_resp = NoLatestResp
    /\ reads = 0

InitBuildIdle ==
    /\ feature_list_raw = <<>>
    /\ feature_list = <<>>
    /\ build_pc = "idle"
    /\ build_items = <<>>
    /\ build_result = NoResult
    /\ build_between = NoResult
    /\ build_second = NoResult

InitTrainIdle ==
    /\ train_pc = "idle"
    /\ script = "none"
    /\ bssids = <<>>
    /\ bssids_norm = <<>>
    /\ feature_cols = <<>>

InitLabelIdle ==
    /\ label_pc = "idle"
    /\ y_labels = <<>>
    /\ encoder_classes = <<>>
    /\ y_encoded = <<>>
    /\ y_decoded = <<>>

InitTopIdle ==
    /\ top_pc = "idle"
    /\ top_probs = <<>>
    /\ top_record = NoPrediction

InitNormalize ==
    /\ norm_pc = "input"
    /\ norm_x \in RawStrings
    /\ norm_y = <<>>
    /\ norm_z = <<>>
    /\ InitSpellIdle
    /\ InitBuildIdle
    /\ InitServerIdle
    /\ InitTrainIdle
    /\ InitLabelIdle
    /\ InitTopIdle

\* y = normalize_bssid(x)
NormalizeOnce ==
    /\ norm_pc = "input"
    /\ norm_y' = normalize_bssid(norm_x)
    /\ norm_pc' = "once"
    /\ UNCHANGED <<norm_x, norm_z>>
    /\ UNCHANGED spellVars
    /\ UNCHANGED <<schemaVars, buildVars, serverVars, trainVars, labelVars, topVars>>

\* z = normalize_bssid(y)
NormalizeTwice ==
    /\ norm_pc = "once"
    /\ norm_z' = normalize_bssid(norm_y)
    /\ norm_pc' = "twice"
    /\ UNCHANGED <<norm_x, norm_y>>
    /\ UNCHANGED spellVars
    /\ UNCHANGED <<schemaVars, buildVars, serverVars, trainVars, labelVars, topVars>>

NextNormalize == NormalizeOnce \/ NormalizeTwice

SpecNormalize == InitNormalize /\ [][NextNormalize]_vars

\* ============================================== spelling specification
InitSpelling ==
    /\ spell_pc = "input"
    /\ core \in PlainCores
    /\ variant \in Variants(core)
    /\ spelling = Render(core, variant)
    /\ canon_a = <<>>
    /\ canon_b = <<>>
    /\ InitNormIdle
    /\ InitBuildIdle
    /\ InitServerIdle
    /\ InitTrainIdle
    /\ InitLabelIdle
    /\ InitTopIdle

\* both spellings of the identifier are normalised
NormalizeSpellings ==
    /\ spell_pc = "input"
    /\ canon_a' = normalize_bssid(core)
    /\ canon_b' = normalize_bssid(spelling)
    /\ spell_pc' = "done"
    /\ UNCHANGED <<core, variant, spelling>>
    /\ UNCHANGED normVars
    /\ UNCHANGED <<schemaVars, buildVars, serverVars, trainVars, labelVars, topVars>>

NextSpelling == NormalizeSpellings

SpecSpelling == InitSpelling /\ [][NextSpelling]_vars

\* ================================================ builder specification
InitBuild ==
    /\ build_pc = "load"
    /\ \E inp \in BuildInputs :
          /\ feature_list_raw = inp[1]
          /\ build_items = inp[2]
    /\ feature_list = <<>>
    /\ build_result = NoResult
    /\ build_between = NoResult
    /\ build_second = NoResult
    /\ InitNormIdle
    /\ InitSpellIdle
    /\ InitServerIdle
    /\ InitTrainIdle
    /\ InitLabelIdle
    /\ InitTopIdle

\* module start-up, lines 35-36
LoadArtifacts ==
    /\ build_pc = "load"
    /\ feature_list' = LoadFeatureList(feature_list_raw)
    /\ build_pc' = "input"
    /\ UNCHANGED <<feature_list_raw, build_items, build_result, build_between,
                   build_second>>
    /\ UNCHANGED <<normVars, spellVars, serverVars, trainVars, labelVars, topVars>>

\* the identifiers of scan_items that the schema does not hold, normalised
RECURSIVE Unknown(_, _)
Unknown(fl, items) ==
    IF items = <<>> THEN <<>>
    ELSE LET b == normalize_bssid(Head(items).bssid)
         IN  IF InList(fl, b) THEN Unknown(fl, Tail(items))
             ELSE <<b>> \o Unknown(Append(fl, b), Tail(items))

\* a call that adds the identifiers it does not know to feature_list
BuildFeatureDf_extendschema ==
    /\ build_pc = "input"
    /\ build_result' = build_feature_df(feature_list, build_items)
    /\ feature_list' = feature_list \o Unknown(feature_list, build_items)
    /\ build_pc' = "done"
    /\ UNCHANGED <<feature_list_raw, build_items, build_between, build_second>>
    /\ UNCHANGED <<normVars, spellVars, serverVars, trainVars, labelVars, topVars>>

\* one call build_feature_df(scan_items): data, matched_count and
\* matched_bssids are locals; feature_list is only read
BuildFeatureDf ==
    /\ build_pc = "input"
    /\ build_result' = build_feature_df(feature_list, build_items)
    /\ build_pc' = "done"
    /\ UNCHANGED <<feature_list_raw, feature_list, build_items, build_between,
                   build_second>>
    /\ UNCHANGED <<normVars, spellVars, serverVars, trainVars, labelVars, topVars>>

\* scan_items of another request
OtherItems ==
    { <<Obs(<<"b">>, Num(-40))>>,
      <<Obs(<<"a", ":">>, Num(-80)), Obs(<<"c">>, BadStr)>> }

\* a call of build_feature_df for other scan_items
BuildFeatureDfBetween ==
    /\ build_pc = "done"
    /\ \E items \in OtherItems :
          build_between' = build_feature_df(feature_list, items)
    /\ build_pc' = "between"
    /\ UNCHANGED <<feature_list_raw, feature_list, build_items, build_result,
                   build_second>>
    /\ UNCHANGED <<normVars, spellVars, serverVars, trainVars, labelVars, topVars>>

\* a second call build_feature_df(scan_items) for the same scan_items
BuildFeatureDfAgain ==
    /\ build_pc \in {"done", "between"}
    /\ build_second' = build_feature_df(feature_list, build_items)
    /\ build_pc' = "again"
    /\ UNCHANGED <<feature_list_raw, feature_list, build_items, build_result,
                   build_between>>
    /\ UNCHANGED <<normVars, spellVars, serverVars, trainVars, labelVars, topVars>>

NextBuild ==
    \/ LoadArtifacts
    \/ BuildFeatureDf
    \/ BuildFeatureDfBetween
    \/ BuildFeatureDfAgain

SpecBuild == InitBuild /\ [][NextBuild]_vars

\* ================================================ service specification
Init ==
    /\ server_pc = "loading"
    /\ files_exist \in BOOLEAN
    /\ feature_list_raw \in ServerSchemas
    /\ rf_n_features \in {Len(feature_list_raw), Len(feature_list_raw) + 1}
    /\ feature_list = <<>>
    /\ latest_prediction = NoPrediction
    /\ active_connections = <<>>
    /\ clock = 0
    /\ req = [r \in Reqs |-> NewReq]
    /\ response = [r \in Reqs |-> NoResponse]
    /\ ws = [w \in WS |-> [pc |-> "new", alive |-> FALSE, message |-> NoPrediction]]
    /\ inbox = [w \in WS |-> <<>>]
    /\ latest_resp = NoLatestResp
    /\ reads = 0
    /\ build_pc = "idle"
    /\ build_items = <<>>
    /\ build_result = NoResult
    /\ build_between = NoResult
    /\ build_second = NoResult
    /\ InitNormIdle
    /\ InitSpellIdle
    /\ InitTrainIdle
    /\ InitLabelIdle
    /\ InitTopIdle

harnessVars == <<normVars, spellVars, buildVars, trainVars, labelVars, topVars>>

\* module start-up, lines 29-39: RuntimeError when a file is missing, else
\* the artifacts are loaded and the schema is normalised
Startup ==
    /\ server_pc = "loading"
    /\ IF files_exist
       THEN /\ feature_list' = LoadFeatureList(feature_list_raw)
            /\ server_pc' = "serving"
       ELSE /\ server_pc' = "failed"
            /\ UNCHANGED feature_list
    /\ UNCHANGED <<feature_list_raw, files_exist, rf_n_features, latest_prediction,
                   active_connections, clock, req, response, ws, inbox, latest_resp, reads>>
    /\ UNCHANGED harnessVars

\* the request r ends with an HTTP response
Respond(r, locals, status, body) ==
    /\ req' = [req EXCEPT ![r] = [locals EXCEPT !.pc = "done", !.idx = 0, !.conn = 0]]
    /\ response' = [response EXCEPT ![r] = [status |-> status, body |-> body]]

\* broadcast, lines 89-91, and predict_location, line 223: the pass over the
\* connections is over; failed connections are pruned and the response is
\* built from the module-level latest_prediction
FinishBroadcast(r, locals, latest) ==
    /\ active_connections' = Prune(active_connections, locals.disconnected)
    /\ Respond(r, locals, 200, latest)

\* an except clause that answers 200 with the record of an earlier prediction
HandleException_stale(r, locals) ==
    /\ Respond(r, locals, 200, latest_prediction)
    /\ UNCHANGED <<latest_prediction, active_connections, clock>>

\* predict_location, lines 225-233: an exception raised inside the try block
\* (by the classifier, the label encoder or the probabilities) becomes an
\* HTTPException with status 500; nothing else has been assigned yet
HandleException(r, locals) ==
    /\ Respond(r, locals, 500, NoPrediction)
    /\ UNCHANGED <<latest_prediction, active_connections, clock>>

\* POST /predict, lines 157-233, from the start of the handler to its first
\* await that suspends (the first send_json of the broadcast) or to its end
predict_location(r) ==
    /\ server_pc = "serving"
    /\ req[r].pc = "new"
    /\ \E body \in RequestBodies :
        LET l0 == [req[r] EXCEPT !.body = body] IN
        IF Rejected(body)
        THEN \* line 166: HTTPException 400
             /\ Respond(r, l0, 400, NoPrediction)
             /\ UNCHANGED <<latest_prediction, active_connections, clock>>
        ELSE
          LET scan_items == ScanItems(RawList(body))
              built      == build_feature_df(feature_list, scan_items)
              l1         == [l0 EXCEPT !.scan_items = scan_items,
                                       !.X = built.row,
                                       !.matched_count = built.matched_count]
          IN
          IF built.raised
          THEN \* the ValueError of pd.DataFrame is outside the try: 500
               /\ Respond(r, l1, 500, NoPrediction)
               /\ UNCHANGED <<latest_prediction, active_connections, clock>>
          ELSE
            \E out \in ClassifierOutcomes :
              LET l2 == [l1 EXCEPT !.invoked = TRUE]
                  failed == out.raised \/ Len(built.row) # rf_n_features
              IN
              IF failed
              THEN HandleException(r, l2)
              ELSE
                LET latest == Prediction(out.probs, built.matched_count,
                                         scan_items, clock + 1)
                    l3 == [l2 EXCEPT !.message = latest]
                IN
                /\ latest_prediction' = latest
                /\ clock' = clock + 1
                /\ IF active_connections = <<>>
                   THEN FinishBroadcast(r, l3, latest)
                   ELSE \* line 86: await connection.send_json(message)
                        /\ req' = [req EXCEPT ![r] =
                                    [l3 EXCEPT !.pc = "broadcast", !.idx = 1,
                                               !.conn = active_connections[1]]]
                        /\ UNCHANGED <<response, active_connections>>
    /\ UNCHANGED <<feature_list_raw, feature_list, server_pc, files_exist,
                   rf_n_features, ws, inbox, latest_resp, reads>>
    /\ UNCHANGED harnessVars

\* broadcast removing a failed connection inside the loop instead of after it
broadcast_pruneinloop(r) ==
    /\ req[r].pc = "broadcast"
    /\ LET c  == req[r].conn
           ok == ws[c].alive
           l1 == IF ok THEN req[r]
                 ELSE [req[r] EXCEPT !.disconnected = Append(@, c)]
           conns == IF ok THEN active_connections
                    ELSE disconnect(active_connections, c)
           nxt == req[r].idx + 1
       IN
       /\ inbox' = IF ok THEN [inbox EXCEPT ![c] = Append(@, req[r].message)]
                   ELSE inbox
       /\ active_connections' = conns
       /\ IF nxt <= Len(conns)
          THEN /\ req' = [req EXCEPT ![r] =
                            [l1 EXCEPT !.idx = nxt, !.conn = conns[nxt]]]
               /\ UNCHANGED response
          ELSE Respond(r, l1, 200, latest_prediction)
    /\ UNCHANGED <<feature_list_raw, feature_list, server_pc, files_exist,
                   rf_n_features, latest_prediction, clock, ws, latest_resp, reads>>
    /\ UNCHANGED harnessVars

\* broadcast, lines 84-91: the awaited send_json returns or raises; the loop
\* goes on to the next connection of the list or, at its end, the handler
\* runs to its return
broadcast(r) ==
    /\ req[r].pc = "broadcast"
    /\ LET c  == req[r].conn
           ok == ws[c].alive
           l1 == IF ok THEN req[r]
                 ELSE [req[r] EXCEPT !.disconnected = Append(@, c)]
           nxt == req[r].idx + 1
       IN
       /\ inbox' = IF ok THEN [inbox EXCEPT ![c] = Append(@, req[r].message)]
                   ELSE inbox
       /\ IF nxt <= Len(active_connections)
          THEN /\ req' = [req EXCEPT ![r] =
                            [l1 EXCEPT !.idx = nxt, !.conn = active_connections[nxt]]]
               /\ UNCHANGED <<response, active_connections>>
          ELSE FinishBroadcast(r, l1, latest_prediction)
    /\ UNCHANGED <<feature_list_raw, feature_list, server_pc, files_exist,
                   rf_n_features, latest_prediction, clock, ws, latest_resp, reads>>
    /\ UNCHANGED harnessVars

\* connect sending latest_prediction without the test of line 252
connect_sendalways(w) ==
    /\ server_pc = "serving"
    /\ ws[w].pc = "new"
    /\ active_connections' = Append(active_connections, w)
    /\ ws' = [ws EXCEPT ![w] = [pc |-> "sending", alive |-> TRUE,
                                message |-> latest_prediction]]
    /\ UNCHANGED <<feature_list_raw, feature_list, server_pc, files_exist,
                   rf_n_features, latest_prediction, clock,
                   req, response, inbox, latest_resp, reads>>
    /\ UNCHANGED harnessVars

\* a client opens /ws. connect, lines 73-75, and websocket_endpoint, lines
\* 252-255: once accepted, the connection is appended; the latest prediction,
\* if there is one, is being sent, else the handler waits in receive_text.
\* (Until the append the handler has touched no shared state, so the await
\* of accept() is not a separate step.)
connect(w) ==
    /\ server_pc = "serving"
    /\ ws[w].pc = "new"
    /\ active_connections' = Append(active_connections, w)
    /\ IF latest_prediction.location # "None"
       THEN ws' = [ws EXCEPT ![w] = [pc |-> "sending", alive |-> TRUE,
                                     message |-> latest_prediction]]
       ELSE ws' = [ws EXCEPT ![w] = [pc |-> "receiving", alive |-> TRUE,
                                     message |-> NoPrediction]]
    /\ UNCHANGED <<feature_list_raw, feature_list, server_pc, files_exist,
                   rf_n_features, latest_prediction, clock,
                   req, response, inbox, latest_resp, reads>>
    /\ UNCHANGED harnessVars

\* websocket_endpoint, line 253: the send of the latest prediction returns,
\* or raises: a WebSocketDisconnect is handled by disconnect (line 257), any
\* other exception ends the handler
websocket_send_latest(w) ==
    /\ ws[w].pc = "sending"
    /\ IF ws[w].alive
       THEN /\ inbox' = [inbox EXCEPT ![w] = Append(@, ws[w].message)]
            /\ ws' = [ws EXCEPT ![w] = [@ EXCEPT !.pc = "receiving"]]
            /\ UNCHANGED active_connections
       ELSE /\ UNCHANGED inbox
            /\ ws' = [ws EXCEPT ![w] = [@ EXCEPT !.pc = "closed"]]
            /\ \E caught \in BOOLEAN :
                  active_connections' =
                      IF caught THEN disconnect(active_connections, w)
                      ELSE active_connections
    /\ UNCHANGED <<feature_list_raw, feature_list, server_pc, files_exist,
                   rf_n_features, latest_prediction, clock,
                   req, response, latest_resp, reads>>
    /\ UNCHANGED harnessVars

\* websocket_endpoint, lines 255-257: receive_text raises WebSocketDisconnect
\* once the client is gone
websocket_disconnect(w) ==
    /\ ws[w].pc = "receiving"
    /\ ~ws[w].alive
    /\ active_connections' = disconnect(active_connections, w)
    /\ ws' = [ws EXCEPT ![w] = [@ EXCEPT !.pc = "closed"]]
    /\ UNCHANGED <<feature_list_raw, feature_list, server_pc, files_exist,
                   rf_n_features, latest_prediction, clock,
                   req, response, inbox, latest_resp, reads>>
    /\ UNCHANGED harnessVars

\* the client of w goes away (closes, or its network does)
client_gone(w) ==
    /\ ws[w].pc \in {"sending", "receiving"}
    /\ ws[w].alive
    /\ ws' = [ws EXCEPT ![w] = [@ EXCEPT !.alive = FALSE]]
    /\ UNCHANGED <<feature_list_raw, feature_list, server_pc, files_exist,
                   rf_n_features, latest_prediction, active_connections, clock,
                   req, response, inbox, latest_resp, reads>>
    /\ UNCHANGED harnessVars

\* GET /latest returning latest_prediction without the test of line 237
get_latest_prediction_nocheck ==
    /\ server_pc = "serving"
    /\ reads < MaxReads
    /\ reads' = reads + 1
    /\ latest_resp' = [message |-> "", data |-> latest_prediction]
    /\ UNCHANGED <<feature_list_raw, feature_list, server_pc, files_exist,
                   rf_n_features, latest_prediction, active_connections, clock,
                   req, response, ws, inbox>>
    /\ UNCHANGED harnessVars

\* GET /latest, lines 236-239
get_latest_prediction ==
    /\ server_pc = "serving"
    /\ reads < MaxReads
    /\ reads' = reads + 1
    /\ latest_resp' =
          IF latest_prediction.location = "None"
          THEN [message |-> "No predictions yet", data |-> NoPrediction]
          ELSE [message |-> "", data |-> latest_prediction]
    /\ UNCHANGED <<feature_list_raw, feature_list, server_pc, files_exist,
                   rf_n_features, latest_prediction, active_connections, clock,
                   req, response, ws, inbox>>
    /\ UNCHANGED harnessVars

Next ==
    \/ Startup
    \/ \E r \in Reqs : predict_location(r)
    \/ \E r \in Reqs : broadcast(r)
    \/ \E w \in WS : connect(w)
    \/ \E w \in WS : websocket_send_latest(w)
    \/ \E w \in WS : websocket_disconnect(w)
    \/ \E w \in WS : client_gone(w)
    \/ get_latest_prediction

Spec == Init /\ [][Next]_vars

\* ---------------------------------------------------- the training pipeline
\* wifi_training_data.csv (long) is turned into wifi_training_wide_per_scan.csv
\* by preprocess_data.py or by convert_long_to_wide_per_scan.py; model_train.py
\* persists the feature columns of the wide file; app.py loads that list.

\* ord(c), the code point by which Python and pandas order strings
Ord(c) ==
    CASE c = " " -> 32
      [] c = "-" -> 45
      [] c = ":" -> 58
      [] c = "A" -> 65
      [] c = "B" -> 66
      [] c = "C" -> 67
      [] c = "a" -> 97
      [] c = "b" -> 98
      [] c = "c" -> 99
      [] c = "U+1D400" -> 119808

\* s < t for Python strings
RECURSIVE StrLess(_, _)
StrLess(s, t) ==
    IF t = <<>> THEN FALSE
    ELSE IF s = <<>> THEN TRUE
    ELSE IF Head(s) = Head(t) THEN StrLess(Tail(s), Tail(t))
    ELSE Ord(Head(s)) < Ord(Head(t))

\* the distinct values of a column
Values(col) == {col[i] : i \in 1..Len(col)}

\* preprocess_data.py, convert_to_wide: pivot_table(columns='BSSID') has one
\* column per distinct value, in sorted order
RECURSIVE SortedStrings(_)
SortedStrings(S) ==
    IF S = {} THEN <<>>
    ELSE LET m == CHOOSE x \in S : \A y \in S \ {x} : StrLess(x, y)
         IN  <<m>> \o SortedStrings(S \ {m})

Count(col, v) == Cardinality({i \in 1..Len(col) : col[i] = v})

\* convert_long_to_wide_per_scan.py, build_ap_list: value_counts() lists the
\* distinct values by descending count; the order among equal counts is
\* not fixed by the code
ValueCountsOrders(col) ==
    {p \in [1..Cardinality(Values(col)) -> Values(col)] :
        /\ \A i, j \in DOMAIN p : p[i] = p[j] => i = j
        /\ \A i, j \in DOMAIN p : i < j => Count(col, p[i]) >= Count(col, p[j])}

\* preprocess_data.py, normalize_bssid, lines 38-41, on one value of the
\* column: lower, replace, trailing colon; there is no strip
preprocess_data_normalize_bssid(x) ==
    LET y == Replace(Lower(x), "-", ":")
    IN  IF EndsWith(y, ":") THEN y ELSE Append(y, ":")

\* convert_long_to_wide_per_scan.py, normalize_and_typecast, line 44, on one
\* value of the column: lower, replace, strip; no trailing colon is added
normalize_and_typecast(x) == Strip(Replace(Lower(x), "-", ":"))

\* BSSID values of the long CSV: each has a character that is not whitespace
TrainBssids ==
    { <<"a">>, <<"a", ":">>, <<" ", "a">>, <<"A">>, <<"b", "-">>, <<"b", ":">> }

InitTrain ==
    /\ train_pc = "input"
    /\ script = "none"
    /\ bssids \in (SeqsUpTo(TrainBssids, MaxRows) \ {<<>>})
    /\ bssids_norm = <<>>
    /\ feature_cols = <<>>
    /\ feature_list_raw = <<>>
    /\ feature_list = <<>>
    /\ build_pc = "idle"
    /\ build_items = <<>>
    /\ build_result = NoResult
    /\ build_between = NoResult
    /\ build_second = NoResult
    /\ InitNormIdle
    /\ InitSpellIdle
    /\ InitServerIdle
    /\ InitLabelIdle
    /\ InitTopIdle

\* python preprocess_data.py: normalize_bssid, convert_to_wide, to_csv
preprocess_data ==
    /\ train_pc = "input"
    /\ script' = "preprocess_data"
    /\ bssids_norm' = [i \in 1..Len(bssids) |->
                          preprocess_data_normalize_bssid(bssids[i])]
    /\ feature_cols' = SortedStrings(Values(bssids_norm'))
    /\ train_pc' = "wide"
    /\ UNCHANGED <<bssids, schemaVars, buildVars, serverVars, normVars, spellVars,
                   labelVars, topVars>>

\* python convert_long_to_wide_per_scan.py: normalize_and_typecast,
\* build_ap_list, pivot_per_scan, to_csv
convert_long_to_wide_per_scan ==
    /\ train_pc = "input"
    /\ script' = "convert_long_to_wide_per_scan"
    /\ bssids_norm' = [i \in 1..Len(bssids) |-> normalize_and_typecast(bssids[i])]
    /\ feature_cols' \in ValueCountsOrders(bssids_norm')
    /\ train_pc' = "wide"
    /\ UNCHANGED <<bssids, schemaVars, buildVars, serverVars, normVars, spellVars,
                   labelVars, topVars>>

\* python model_train.py: load_data takes every column of the wide file but
\* the three meta columns as feature_cols; save_artifacts writes them, one
\* per line, to feature_list_used.csv
save_artifacts ==
    /\ train_pc = "wide"
    /\ feature_list_raw' = feature_cols
    /\ train_pc' = "trained"
    /\ UNCHANGED <<feature_list, trainVars_data, buildVars, serverVars,
                   normVars, spellVars, labelVars, topVars>>

\* app.py, lines 35-36: the persisted list is read and normalised
load_feature_list ==
    /\ train_pc = "trained"
    /\ feature_list' = LoadFeatureList(feature_list_raw)
    /\ train_pc' = "served"
    /\ UNCHANGED <<feature_list_raw, trainVars_data, buildVars, serverVars,
                   normVars, spellVars, labelVars, topVars>>

NextTrain ==
    \/ preprocess_data
    \/ convert_long_to_wide_per_scan
    \/ save_artifacts
    \/ load_feature_list

SpecTrain == InitTrain /\ [][NextTrain]_vars

\* ------------------------------------------------------- the label encoder
\* sklearn's LabelEncoder as model_train.py and app.py use it: fit keeps the
\* sorted distinct labels as classes_; the code of a label is its 0-based
\* index in classes_; inverse_transform indexes classes_ by the code.

\* the code of a label taken as its first position in y instead
Transform_appearance(classes, labels) ==
    [i \in 1..Len(labels) |->
        (CHOOSE k \in 1..Len(labels) :
            labels[k] = labels[i] /\ \A j \in 1..(k - 1) : labels[j] # labels[i]) - 1]

\* LabelEncoder.transform
Transform(classes, labels) ==
    [i \in 1..Len(labels) |->
        (CHOOSE k \in 1..Len(classes) : classes[k] = labels[i]) - 1]

\* LabelEncoder.fit: classes_ = np.unique(y)
Fit(labels) == SortedStrings(Values(labels))

\* LabelEncoder.inverse_transform
InverseTransform(classes, codes) ==
    [i \in 1..Len(codes) |-> classes[codes[i] + 1]]

\* location labels of the training data
LabelNames == { <<"a">>, <<"b">>, <<"A">>, <<"a", "b">> }

InitLabels ==
    /\ label_pc = "input"
    /\ y_labels \in (SeqsUpTo(LabelNames, MaxLabels) \ {<<>>})
    /\ encoder_classes = <<>>
    /\ y_encoded = <<>>
    /\ y_decoded = <<>>
    /\ InitNormIdle
    /\ InitSpellIdle
    /\ InitBuildIdle
    /\ InitServerIdle
    /\ InitTrainIdle
    /\ InitTopIdle

\* model_train.py, encode_labels: encoder.fit_transform(y)
encode_labels ==
    /\ label_pc = "input"
    /\ encoder_classes' = Fit(y_labels)
    /\ y_encoded' = Transform(encoder_classes', y_labels)
    /\ label_pc' = "encoded"
    /\ UNCHANGED <<y_labels, y_decoded>>
    /\ UNCHANGED <<normVars, spellVars, schemaVars, buildVars, serverVars, trainVars,
                   topVars>>

\* model_train.py, evaluate_model, and app.py line 187:
\* encoder.inverse_transform
inverse_transform ==
    /\ label_pc = "encoded"
    /\ y_decoded' = InverseTransform(encoder_classes, y_encoded)
    /\ label_pc' = "decoded"
    /\ UNCHANGED <<y_labels, encoder_classes, y_encoded>>
    /\ UNCHANGED <<normVars, spellVars, schemaVars, buildVars, serverVars, trainVars,
                   topVars>>

NextLabels == encode_labels \/ inverse_transform

SpecLabels == InitLabels /\ [][NextLabels]_vars

\* ------------------------------------------------ the ranking of the labels
\* probabilities, in percent, that predict_proba may return
ProbValues == {10, 30, 40}

\* a classifier over the first n labels of classes_ returns n probabilities,
\* for every n from one label to all of classes_
InitTop ==
    /\ top_pc = "input"
    /\ top_probs \in (SeqsUpTo(ProbValues, Len(classes_)) \ {<<>>})
    /\ top_record = NoPrediction
    /\ InitNormIdle
    /\ InitSpellIdle
    /\ InitBuildIdle
    /\ InitServerIdle
    /\ InitTrainIdle
    /\ InitLabelIdle

\* predict_location, lines 186-207: the record made from one row of
\* probabilities
MakeRecord ==
    /\ top_pc = "input"
    /\ top_record' = Prediction(top_probs, 0, <<>>, 1)
    /\ top_pc' = "done"
    /\ UNCHANGED top_probs
    /\ UNCHANGED <<normVars, spellVars, schemaVars, buildVars, serverVars, trainVars,
                   labelVars>>

NextTop == MakeRecord

SpecTop == InitTop /\ [][NextTop]_vars

\* ================================================================ claims

\* C3: normalize_bssid is idempotent: normalising an already normalised
\* string returns it unchanged, for every input string.
C3_Idempotent == norm_pc = "twice" => norm_z = norm_y

\* an input that normalisation really changes has been normalised twice
C3_Witness ==
    /\ norm_pc = "twice"
    /\ norm_x = <<" ", "A", "-">>
    /\ norm_y = <<"a", ":">>

C5_Canonical ==
    norm_pc \in {"once", "twice"} =>
        /\ norm_y \in Seq(Chars \cup Letters \cup Uppers)
        /\ \A i \in 1..Len(norm_y) : norm_y[i] \notin Uppers /\ norm_y[i] # "-"
        /\ Len(norm_y) > 0
        /\ norm_y[1] \notin Whitespace
        /\ norm_y[Len(norm_y)] = ":"

\* C5 amended: every output of normalize_bssid has no uppercase letter that
\* has a lowercase form, no hyphen, no leading whitespace and a colon at the
\* end; it is defined for every input string.
C5_CanonicalCased ==
    norm_pc \in {"once", "twice"} =>
        /\ norm_y \in Seq(Chars \cup Letters \cup Uppers)
        /\ \A i \in 1..Len(norm_y) : norm_y[i] \notin CasedUppers /\ norm_y[i] # "-"
        /\ Len(norm_y) > 0
        /\ norm_y[1] \notin Whitespace
        /\ norm_y[Len(norm_y)] = ":"

\* an input with uppercase, a hyphen and leading whitespace has been normalised
C5_Witness ==
    /\ norm_pc = "once"
    /\ norm_x = <<" ", "A", "-">>

\* ----------------------------------------------------------------------
\* helpers of the builder claims
\* the observations of items whose strength parses and whose normalised
\* identifier is schema entry i
MatchesOf(items, i) ==
    {j \in 1..Len(items) :
        /\ ParseFloat(items[j].rssi).ok
        /\ normalize_bssid(items[j].bssid) = feature_list[i]}

\* the observations of items whose strength parses and whose normalised
\* identifier is some schema entry
MatchedObs(items) ==
    {j \in 1..Len(items) : \E i \in 1..Len(feature_list) : j \in MatchesOf(items, i)}

Parsable(items) == SelectSeq(items, LAMBDA it : ParseFloat(it.rssi).ok)

Returned == build_pc = "done" /\ ~build_result.raised

\* C1: position i of the returned vector holds the parsed strength of the
\* last observation, in input order, that normalises to schema entry i and
\* whose strength parses, and -110 when there is none.
C1_LastObservationWins ==
    Returned =>
        /\ DOMAIN build_result.row = 1..Len(feature_list)
        /\ \A i \in 1..Len(feature_list) :
              build_result.row[i] =
                  IF MatchesOf(build_items, i) = {} THEN -110
                  ELSE ParseFloat(build_items[MaxOf(MatchesOf(build_items, i))].rssi).v

\* two observations of aa:bb:cc: were built into [-80]
C1_Witness ==
    /\ Returned
    /\ feature_list = <<Ex_aa_bb_cc_>>
    /\ build_items = <<Obs(Ex_aa_bb_cc_, Num(-30)), Obs(Ex_AA_BB_CC, Num(-80))>>
    /\ build_result.row = <<-80>>

\* C2: the vector returned by build_feature_df has exactly as many entries
\* as the schema, and for a schema without duplicates a vector is returned
\* whatever the observations are.
C2_VectorLength ==
    build_pc = "done" =>
        /\ ~build_result.raised =>
              /\ Len(build_result.row) = Len(feature_list)
              /\ Len(build_result.columns) = Len(feature_list)
        /\ NoDuplicates(feature_list) => ~build_result.raised

\* a vector of two entries was built from a single observation
C2_Witness ==
    /\ Returned
    /\ Len(feature_list) = 2
    /\ Len(build_items) = 1
    /\ Len(build_result.row) = 2

\* C7: matched_count is the number of observations whose strength parses
\* and whose normalised identifier is a schema entry, each counted
\* separately.
C7_MatchedCountExact ==
    Returned => build_result.matched_count = Cardinality(MatchedObs(build_items))

\* two observations of the same access point were both counted
C7_Witness ==
    /\ Returned
    /\ Len(build_items) = 2
    /\ normalize_bssid(build_items[1].bssid) = normalize_bssid(build_items[2].bssid)
    /\ build_result.matched_count = 2

\* C8: an observation whose strength does not parse is skipped: the result
\* is the one obtained without it, and it makes no call fail.
C8_MalformedSkipped ==
    build_pc = "done" =>
        /\ build_result = build_feature_df(feature_list, Parsable(build_items))
        /\ NoDuplicates(feature_list) => ~build_result.raised

\* an unparsable observation came before a matching one, which was used
C8_Witness ==
    /\ Returned
    /\ Len(build_items) = 2
    /\ ~ParseFloat(build_items[1].rssi).ok
    /\ normalize_bssid(build_items[1].bssid) \in {feature_list[i] : i \in 1..Len(feature_list)}
    /\ build_result.matched_count = 1

\* the observation lists obtained by reordering items
Reorderings(items) ==
    {[i \in 1..Len(items) |-> items[p[i]]] : p \in Permutations(1..Len(items))}

DistinctIds(items) ==
    \A i, j \in 1..Len(items) :
        normalize_bssid(items[i].bssid) = normalize_bssid(items[j].bssid) => i = j

\* C9: the vector is in schema order: when the observations' normalised
\* identifiers are pairwise distinct, every reordering of the observations
\* gives the same vector and the same matched_count.
C9_OrderIndependent ==
    (build_pc = "done" /\ DistinctIds(build_items)) =>
        \A q \in Reorderings(build_items) :
            build_feature_df(feature_list, q) = build_result

\* two different schema entries were observed in the order opposite to the
\* schema's
C9_Witness ==
    /\ Returned
    /\ Len(feature_list) = 2
    /\ Len(build_items) = 2
    /\ MatchesOf(build_items, 1) = {2}
    /\ MatchesOf(build_items, 2) = {1}
    /\ build_result.row[1] # build_result.row[2]

\* ----------------------------------------------------------------------
\* claims about the service

\* the request carries no non-empty list under scans or access_points
NeitherGiven(body) ==
    /\ ~body.scans.present \/ body.scans.items = <<>>
    /\ ~body.access_points.present \/ body.access_points.items = <<>>

C10_EmptyRequestRejected ==
    [][\A r \in Reqs :
          /\ (req[r].pc = "new" /\ req'[r].pc # "new" /\ NeitherGiven(req'[r].body)) =>
                /\ req'[r].pc = "done"
                /\ response'[r].status = 400
                /\ ~req'[r].invoked
                /\ latest_prediction' = latest_prediction
                /\ clock' = clock
                /\ active_connections' = active_connections
                /\ inbox' = inbox
          /\ (req[r].pc = "done" /\ response[r].status = 400) =>
                /\ req'[r] = req[r]
                /\ response'[r] = response[r]]_vars

\* a request was rejected while there was a latest prediction and a
\* subscriber to broadcast to
C10_Witness ==
    \E r \in Reqs :
        /\ req[r].pc = "done"
        /\ NeitherGiven(req[r].body)
        /\ response[r].status = 400
        /\ latest_prediction.location # "None"
        /\ active_connections # <<>>

\* the records made by the successful predictions so far
SuccessfulPredictions == {req[r].message : r \in Reqs} \ {NoPrediction}

\* the record of the successful prediction made last
MostRecent ==
    CHOOSE m \in SuccessfulPredictions :
        \A n \in SuccessfulPredictions : n.timestamp <= m.timestamp

Received(w, m) == \E i \in 1..Len(inbox[w]) : inbox[w][i] = m

\* C11: the response of a successful prediction has the content of the
\* message that was broadcast for it, and every subscriber that was
\* connected when the prediction was made (and is still connected when the
\* request ends) has received that message.
C11_BroadcastToAll ==
    \A r \in Reqs :
        (req[r].pc = "done" /\ response[r].status = 200) =>
            /\ response[r].body = req[r].message
            /\ \A w \in WS :
                  ( /\ ws[w].pc \in {"sending", "receiving"}
                    /\ ws[w].alive
                    /\ InList(active_connections, w)
                    /\ ws[w].message.timestamp < req[r].message.timestamp )
                  => Received(w, req[r].message)

\* C12: a subscriber that connects is at once being sent the most recent
\* prediction when a successful prediction has happened, and that send
\* delivers exactly this record; when none has happened the handler goes
\* straight to receiving and the subscriber has been sent nothing.
C12_LatestOnConnect ==
    [][\A w \in WS :
          /\ (ws[w].pc = "new" /\ ws'[w].pc # "new") =>
                IF SuccessfulPredictions = {}
                THEN ws'[w].pc = "receiving" /\ inbox'[w] = <<>>
                ELSE ws'[w].pc = "sending" /\ ws'[w].message = MostRecent
          /\ (ws[w].pc = "sending" /\ ws[w].alive /\ ws'[w].pc # "sending") =>
                /\ ws'[w].pc = "receiving"
                /\ inbox'[w] = Append(inbox[w], ws[w].message)
          /\ (ws[w].pc = "receiving" /\ ws[w].message = NoPrediction
                /\ inbox'[w] # inbox[w]) =>
                \E r \in Reqs : req[r].pc = "broadcast" /\ req[r].conn = w]_vars

\* a subscriber connected after a prediction and received just that record
C12_Witness ==
    \E w \in WS :
        /\ ws[w].pc = "receiving"
        /\ ws[w].message # NoPrediction
        /\ inbox[w] = <<ws[w].message>>

\* C13: latest_prediction is the empty record until the first successful
\* prediction; every successful prediction replaces it by its whole new
\* record; no other step changes it; GET /latest answers "No predictions
\* yet" exactly when it is the empty record and else returns it.
C13_LatestLifecycle ==
    /\ [](SuccessfulPredictions = {} => latest_prediction = NoPrediction)
    /\ [][/\ latest_prediction' # latest_prediction =>
                \E r \in Reqs :
                    /\ req[r].pc = "new"
                    /\ req'[r].message # NoPrediction
                    /\ latest_prediction' = req'[r].message
          /\ \A r \in Reqs :
                (req[r].pc = "new" /\ req'[r].message # NoPrediction) =>
                    latest_prediction' = req'[r].message
          /\ reads' # reads =>
                /\ (latest_resp'.message = "No predictions yet")
                       <=> (latest_prediction = NoPrediction)
                /\ latest_prediction # NoPrediction =>
                       latest_resp' = [message |-> "", data |-> latest_prediction]
         ]_vars

\* GET /latest returned a prediction, which a later prediction replaced
C13_Witness ==
    /\ reads = 1
    /\ latest_resp.message = ""
    /\ latest_resp.data # NoPrediction
    /\ latest_prediction # latest_resp.data
    /\ latest_prediction \in SuccessfulPredictions

C15_CriticalSections ==
    [][\A r \in Reqs :
          (req[r].pc = "broadcast" /\ req'[r] = req[r]) =>
              /\ active_connections' = active_connections
              /\ latest_prediction' = latest_prediction]_vars

\* C16: a request whose classifier call raises ends, in that same step, with
\* status 500; the step changes nothing but this request's own locals and
\* response: latest_prediction, the subscriber set, every inbox (nothing is
\* broadcast), the other requests and the serving state stay as they were,
\* so a later request meets the service as if the failure had not happened.
C16_ClassifierFailureIsolated ==
    [][\A r \in Reqs :
          (req[r].pc = "new" /\ req'[r].invoked /\ req'[r].message = NoPrediction) =>
              /\ req'[r].pc = "done"
              /\ response'[r].status = 500
              /\ latest_prediction' = latest_prediction
              /\ inbox' = inbox
              /\ active_connections' = active_connections
              /\ ws' = ws
              /\ server_pc' = "serving"
              /\ feature_list' = feature_list
              /\ \A q \in Reqs \ {r} :
                    req'[q] = req[q] /\ response'[q] = response[q]]_vars

\* one request failed in the classifier and another one was served: its
\* record is the latest one and a subscriber has received it
C16_Witness ==
    \E r, q \in Reqs :
        /\ req[r].pc = "done" /\ req[r].invoked /\ response[r].status = 500
        /\ req[q].pc = "done" /\ response[q].status = 200
        /\ latest_prediction = req[q].message
        /\ response[q].body = req[q].message
        /\ \E w \in WS : Received(w, req[q].message)

\* C17: a service whose persisted schema and classifier disagree in width
\* never gets to serve; and a request handled under such a mismatch ends
\* with status 500 without the classifier having been invoked.
C17_WidthMismatchDetected ==
    /\ server_pc = "serving" => rf_n_features = Len(feature_list)
    /\ \A r \in Reqs :
          ( /\ req[r].pc = "done"
            /\ ~NeitherGiven(req[r].body)
            /\ rf_n_features # Len(feature_list) )
          => (~req[r].invoked /\ response[r].status = 500)

\* C18: the schema the service uses has no duplicate entries and has the
\* length and the order of the feature columns that training persisted:
\* entry i is the normalised name of training column i.
C18_SchemaAligned ==
    train_pc = "served" =>
        /\ NoDuplicates(feature_list)
        /\ Len(feature_list) = Len(feature_cols)
        /\ \A i \in 1..Len(feature_list) :
              feature_list[i] = normalize_bssid(feature_cols[i])

\* C19: the normalisation that training preprocessing applies to the BSSID
\* column gives, for every value, what normalize_bssid of the service gives.
C19_SameNormalization ==
    train_pc # "input" =>
        \A i \in 1..Len(bssids) : bssids_norm[i] = normalize_bssid(bssids[i])

\* the request carries the non-empty list l under the key scans only
OnlyScans(body, l) ==
    body.scans.present /\ body.scans.items = l /\ ~body.access_points.present

\* the request carries the non-empty list l under the key access_points only
OnlyAccessPoints(body, l) ==
    body.access_points.present /\ body.access_points.items = l /\ ~body.scans.present

\* C20: a request that is not rejected is processed from its scans list when
\* that is present and non-empty and else from its access_points list; two
\* requests that carry the same list, one under scans only and one under
\* access_points only, get the same feature vector, the same matched count
\* and the same total count.
C20_AliasEquivalent ==
    /\ \A r \in Reqs :
          (req[r].pc # "new" /\ ~NeitherGiven(req[r].body)) =>
              LET body == req[r].body
                  list == IF body.scans.present /\ body.scans.items # <<>>
                          THEN body.scans.items
                          ELSE body.access_points.items
              IN  /\ Len(req[r].scan_items) = Len(list)
                  /\ \A i \in 1..Len(list) :
                        /\ req[r].scan_items[i].bssid = list[i].bssid
                        /\ req[r].scan_items[i].rssi = Num(list[i].rssi)
    /\ \A r, q \in Reqs :
          \A l \in {req[r].body.scans.items} \ {<<>>} :
              ( /\ req[r].pc # "new" /\ OnlyScans(req[r].body, l)
                /\ req[q].pc # "new" /\ OnlyAccessPoints(req[q].body, l) )
              => /\ req[r].X = req[q].X
                 /\ req[r].matched_count = req[q].matched_count
                 /\ Len(req[r].scan_items) = Len(req[q].scan_items)
                 /\ (req[r].message # NoPrediction /\ req[q].message # NoPrediction) =>
                       /\ req[r].message.matched_aps = req[q].message.matched_aps
                       /\ req[r].message.total_aps = req[q].message.total_aps

\* the same list was served once under scans and once under access_points,
\* both with a prediction whose vector has a measured entry
C20_Witness ==
    \E r, q \in Reqs :
        /\ OnlyScans(req[r].body, ListTwo)
        /\ OnlyAccessPoints(req[q].body, ListTwo)
        /\ response[r].status = 200
        /\ response[q].status = 200
        /\ req[r].message.total_aps = 2
        /\ \E i \in 1..Len(req[q].X) : req[q].X[i] # MISSING_RSSI

MinOf2(a, b) == IF a < b THEN a ELSE b

\* C23: the top3 of a prediction record holds min(3, number of labels)
\* entries, each a label with its own probability, no label twice, ordered
\* by non-increasing probability; no label left out has a higher
\* probability than an entry; the confidence is the probability of the
\* first entry and the largest probability of all labels.
C23_Top3 ==
    top_pc = "done" =>
        LET t == top_record.top3
            n == Len(top_probs)
        IN  /\ Len(t) = MinOf2(3, n)
            /\ \A i \in 1..Len(t) :
                  \E k \in 1..n : t[i] = <<classes_[k], top_probs[k]>>
            /\ \A i, j \in 1..Len(t) : t[i][1] = t[j][1] => i = j
            /\ \A i, j \in 1..Len(t) : i < j => t[i][2] >= t[j][2]
            /\ \A k \in 1..n :
                  (\A i \in 1..Len(t) : t[i][1] # classes_[k]) =>
                      \A i \in 1..Len(t) : top_probs[k] <= t[i][2]
            /\ top_record.confidence = t[1][2]
            /\ \A k \in 1..n : top_probs[k] <= top_record.confidence

\* four labels, the largest probability not at the first label, and a
\* label left out of top3
C23_Witness ==
    /\ top_pc = "done"
    /\ Len(top_probs) = 4
    /\ top_probs[1] < top_probs[3]
    /\ Len(top_record.top3) = 3
    /\ top_record.top3[1][1] = classes_[3]

\* C24: the response of a served request carries the prediction computed
\* from the request's own observations: its own location, its own matched
\* count and the number of its own observations.
C24_OwnPrediction ==
    \A r \in Reqs :
        (req[r].pc = "done" /\ response[r].status = 200) =>
            /\ response[r].body.location = req[r].message.location
            /\ response[r].body.matched_aps = req[r].matched_count
            /\ response[r].body.total_aps = Len(req[r].scan_items)

\* C25: every subscriber receives the predictions in the order in which
\* latest_prediction was updated; and when no broadcast is in progress, the
\* last message of every subscriber that is still connected (its handler
\* is receiving, its client is there) is the current latest_prediction.
C25_BroadcastOrder ==
    /\ \A w \in WS :
          \A i, j \in 1..Len(inbox[w]) :
              i < j => inbox[w][i].timestamp <= inbox[w][j].timestamp
    /\ ( /\ \A r \in Reqs : req[r].pc # "broadcast"
         /\ latest_prediction # NoPrediction )
       => \A w \in WS :
             ( /\ ws[w].pc = "receiving"
               /\ ws[w].alive
               /\ InList(active_connections, w) )
             => /\ inbox[w] # <<>>
                /\ inbox[w][Len(inbox[w])] = latest_prediction

\* C26: no subscriber has received the same prediction twice; and when the
\* broadcast of a request is over, every subscriber that was connected
\* before the prediction was made and is connected still has received it.
C26_NoDuplicateNoSkip ==
    /\ \A w \in WS : NoDuplicates(inbox[w])
    /\ \A r \in Reqs :
          (req[r].pc = "done" /\ req[r].message # NoPrediction) =>
              \A w \in WS :
                  ( /\ ws[w].pc = "receiving"
                    /\ ws[w].alive
                    /\ InList(active_connections, w)
                    /\ ws[w].message.timestamp < req[r].message.timestamp )
                  => Received(w, req[r].message)

\* C27: the subscriber set never holds a connection twice; it holds only
\* accepted connections, none that a finished broadcast pass recorded as
\* failed, none whose handler ran disconnect; a connection enters the set
\* only when it is accepted, so a removed connection never returns;
\* a disconnect of a connection that is not in the set leaves the set as it
\* is; a broadcast picks every connection it sends to from the set as it
\* is at that moment, and a subscriber gets messages only from such a send
\* or from its own handler: a connection removed before a broadcast starts
\* is sent nothing by it.
C27_SubscriberSet ==
    /\ [](/\ NoDuplicates(active_connections)
          /\ \A w \in WS :
                InList(active_connections, w) =>
                    /\ ws[w].pc # "new"
                    /\ \A r \in Reqs :
                          req[r].pc = "done" => ~InList(req[r].disconnected, w))
    /\ [][/\ \A w \in WS :
                /\ (~InList(active_connections, w) /\ InList(active_connections', w)) =>
                      ws[w].pc = "new" /\ ws'[w].pc # "new" /\ ws'[w].alive
                /\ (ws[w].pc = "receiving" /\ ws'[w].pc = "closed") =>
                      /\ ~InList(active_connections', w)
                      /\ ~InList(active_connections, w) =>
                            active_connections' = active_connections
                /\ inbox'[w] # inbox[w] =>
                      \/ ws[w].pc = "sending"
                      \/ \E r \in Reqs : req[r].pc = "broadcast" /\ req[r].conn = w
          /\ \A r \in Reqs :
                (req'[r].pc = "broadcast" /\ req'[r] # req[r]) =>
                    InList(active_connections, req'[r].conn)]_vars

\* a broadcast dropped a connection whose send failed, the handler of that
\* connection then ran disconnect, and a later broadcast reached another
\* subscriber but not the dropped one
C27_Witness ==
    \E w, v \in WS : \E r, q \in Reqs :
        /\ w # v
        /\ req[r].pc = "done" /\ InList(req[r].disconnected, w)
        /\ ws[w].pc = "closed"
        /\ req[q].pc = "done" /\ response[q].status = 200
        /\ req[q].message.timestamp > req[r].message.timestamp
        /\ Received(v, req[q].message)
        /\ ~Received(w, req[q].message)

====
